---- MODULE Spec2Model ----
(***************************************************************************)
(* GensynDataCollector (src/gensyn_data_collector.py): the node data       *)
(* reconciliation pipeline.  collect_node_data resolves the roster to      *)
(* on-chain addresses with one batched getEoa call, then walks the roster: *)
(* one status GET per entry, an activity probe over six candidate          *)
(* endpoints when the status is available and an address was resolved,     *)
(* one record appended per entry, a pacing sleep at the end of an          *)
(* iteration.                                                              *)
(*                                                                         *)
(* Python values are encoded as follows.                                   *)
(*   Optional[x]      None is {} and a value v is {v}                      *)
(*   dict             a function from the keys present to their values     *)
(*   list             a sequence                                           *)
(*   JSON value       [type, items, fields]                                *)
(*   epoch number     [hi, lo, ms] = hi * 10^6 + lo + ms / 1000 seconds,   *)
(*                    because 10^12 does not fit the model checker's ints   *)
(* Two runs of collect_node_data are carried side by side (Runs): both are *)
(* fed the same upstream responses and differ in their wall clock only.    *)
(* The code reads the clock at lines 180, 216 and 236 and branches on none *)
(* of these reads, so the two runs share their position.                   *)
(***************************************************************************)
EXTENDS Integers, Sequences, FiniteSets, TLC

\* ---------------------------------------------------------------- bounds
MaxRoster == 2
MaxProbeRoster == 1
MaxTx == 2

\* ------------------------------------------------------ program constants
NumEndpoints == 6
HTTP_OK == 200
MS_FACTOR == 1000
SECONDS_PER_MINUTE == 60
STALE_MINUTES == 30
WARNING_MINUTES == 15
PACING_DELAY == 1

Million == 1000 * 1000
ZERO_ADDRESS == "0x0000000000000000000000000000000000000000"

None == {}
Some(v) == {v}
TheValue(o) == CHOOSE v \in o : TRUE

Runs == {1, 2}

\* ------------------------------------------------------------ input sets
NodeIds == {"QmA", "QmB"}
RostersUpTo(max) == UNION {[1..n -> NodeIds] : n \in 0..max}
ChainAddresses == {ZERO_ADDRESS, "0xA1"}

\* Epoch is the instant of the oldest transaction the explorer reports.  Run 1
\* enters collect_node_data 47 minutes after it, run 2 one minute after run 1.
Epoch == 1700 * Million
ClockPairs == { <<Epoch + 47 * 60, Epoch + 48 * 60>> }

\* ---------------------------------------------------------- JSON encoding
EmptyDict == <<>>
Get(d, key, default) == IF key \in DOMAIN d THEN d[key] ELSE default
Range(s) == {s[k] : k \in DOMAIN s}

JList(items) == [type |-> "list", items |-> items, fields |-> EmptyDict]
JDict(f) == [type |-> "dict", items |-> <<>>, fields |-> f]
JScalar(t) == [type |-> t, items |-> <<>>, fields |-> EmptyDict]

\* ------------------------------------------------- get_peer_info (67-82)
PeerKeys == {"peerName", "score", "reward", "online"}
PeerValue(k) ==
    CASE k = "peerName" -> "alice"
      [] k = "score" -> 5
      [] k = "reward" -> 7
      [] k = "online" -> TRUE
      [] OTHER -> "x"

\* The JSON objects the status API answers with: the empty object, an object
\* whose only key is one the code does not read, and the objects that hold
\* one, three or all four of the well-known keys.
PeerKeySets ==
    {{}, {"version"}, PeerKeys}
    \cup {{k} : k \in PeerKeys}
    \cup {PeerKeys \ {k} : k \in PeerKeys}
PeerObjects == {[k \in S |-> PeerValue(k)] : S \in PeerKeySets}

StatusBody(t, f) == [type |-> t, fields |-> f]
StatusBodies ==
    {StatusBody("object", o) : o \in PeerObjects}
    \cup {StatusBody(t, EmptyDict) : t \in {"list", "string", "number", "null"}}

StatusResponse(k, c, p, b) == [kind |-> k, code |-> c, parses |-> p, body |-> b]
StatusResponses ==
    {StatusResponse("error", 0, FALSE, StatusBody("null", EmptyDict))}
    \cup {StatusResponse("http", c, FALSE, StatusBody("null", EmptyDict)) : c \in {200, 404, 500}}
    \cup {StatusResponse("http", 200, TRUE, b) : b \in StatusBodies}

\* A status API that gives one of three answers: no answer, the full object, a list
FewStatusResponses ==
    { StatusResponse("error", 0, FALSE, StatusBody("null", EmptyDict)),
      StatusResponse("http", 200, TRUE, StatusBody("object", [k \in PeerKeys |-> PeerValue(k)])),
      StatusResponse("http", 200, TRUE, StatusBody("list", EmptyDict)) }

\* response.raise_for_status() raises HTTPError, a RequestException, for 4xx/5xx
RaisesForStatus(code) == code >= 400 /\ code < 600

\* The outcome of get_peer_info: "none" (returns None), "dict" (returns the
\* parsed object) or "raise" (data.get on a body that is no dict raises
\* AttributeError, which neither except clause catches).
get_peer_info(response) ==
    IF response.kind = "error" \/ RaisesForStatus(response.code) \/ ~response.parses
    THEN [kind |-> "none", data |-> EmptyDict]
    ELSE IF response.body.type # "object"
    THEN [kind |-> "raise", data |-> EmptyDict]
    ELSE [kind |-> "dict", data |-> response.body.fields]

\* `not peer_info` at line 206: None and the empty dict are both falsy
Falsy(peer) == peer.kind = "none" \/ (peer.kind = "dict" /\ DOMAIN peer.data = {})

\* --------------------------------------- get_eoa_addresses_batch (84-113)
ChainReturn(a) == [kind |-> "return", addresses |-> a]
ChainRaise == [kind |-> "raise", addresses |-> <<>>]
ChainOutcomes ==
    {ChainRaise} \cup {ChainReturn(a) : a \in UNION {[1..n -> ChainAddresses] : n \in 0..MaxRoster}}
\* A chain that raises or returns the same address twice
FewChainOutcomes == {ChainRaise, ChainReturn(<<"0xA1", "0xA1">>)}

\* BatchResult with the comparison of line 100 left out
RECURSIVE BatchResult_NoSentinel(_, _, _)
BatchResult_NoSentinel(ids, eoa, n) ==
    IF n = 0 THEN EmptyDict
    ELSE LET prev == BatchResult_NoSentinel(ids, eoa, n - 1)
             node_id == ids[n]
             v == IF n <= Len(eoa) THEN Some(eoa[n]) ELSE None
         IN [k \in (DOMAIN prev) \cup {node_id} |-> IF k = node_id THEN v ELSE prev[k]]

\* lines 94-105, the dict after the first n positions
RECURSIVE BatchResult(_, _, _)
BatchResult(ids, eoa, n) ==
    IF n = 0 THEN EmptyDict
    ELSE LET prev == BatchResult(ids, eoa, n - 1)
             node_id == ids[n]
             v == IF n <= Len(eoa)
                  THEN IF eoa[n] # ZERO_ADDRESS THEN Some(eoa[n]) ELSE None
                  ELSE None
         IN [k \in (DOMAIN prev) \cup {node_id} |-> IF k = node_id THEN v ELSE prev[k]]

\* get_eoa_addresses_batch with a handler (line 113) that fills in the
\* all-zero address instead of None
get_eoa_addresses_batch_ZeroFill(ids, contractObj, outcome) ==
    IF contractObj = None THEN EmptyDict
    ELSE IF outcome.kind = "raise" THEN [k \in Range(ids) |-> Some(ZERO_ADDRESS)]
    ELSE BatchResult(ids, outcome.addresses, Len(ids))

get_eoa_addresses_batch(ids, contractObj, outcome) ==
    IF contractObj = None THEN EmptyDict
    ELSE IF outcome.kind = "raise" THEN [k \in Range(ids) |-> None]
    ELSE BatchResult(ids, outcome.addresses, Len(ids))

\* eoa_addresses.get(node_id)
Lookup(map, node_id) == Get(map, node_id, None)

\* ------------------------------------- get_last_internal_tx_time (115-194)
POSSIBLE_KEYS == <<"items", "transactions", "data", "result", "internal_transactions">>
TIMESTAMP_FIELDS == <<"timestamp", "block_timestamp", "created_at", "time", "block_time">>

\* The value of a timestamp field.  kind is "digits" (a str(...) that isdigit:
\* the number hi * 10^6 + lo), "iso" (an ISO-8601 text that denotes the epoch
\* second hi * 10^6 + lo), "junk" (any other non-empty text) or "empty" (a
\* falsy value: "", 0, null).
FieldValue(k, h, l) == [kind |-> k, hi |-> h, lo |-> l]
Digits(h, l) == FieldValue("digits", h, l)
Iso(h, l) == FieldValue("iso", h, l)
Junk == FieldValue("junk", 0, 0)
Empty == FieldValue("empty", 0, 0)

\* A transaction item: a JSON object (fields), or a value that is no object.
\* For a string, mentions holds the timestamp field names that occur in it.
TxObject(f) == [type |-> "object", fields |-> f, mentions |-> {}]
TxOther(t, m) == [type |-> t, fields |-> EmptyDict, mentions |-> m]

Timestamp(h, l, m) == [hi |-> h, lo |-> l, ms |-> m]

\* timestamp > 1000000000000 (line 166)
ExceedsMsThreshold(h, l) == h > Million \/ (h = Million /\ l > 0)

\* ParseTimestamp with the division of line 167 done for every numeric value
ParseTimestamp_AlwaysDivide(v) ==
    IF v.kind = "digits"
    THEN LET secs == v.hi * MS_FACTOR + (v.lo \div MS_FACTOR)
         IN Some(Timestamp(secs \div Million, secs % Million, v.lo % MS_FACTOR))
    ELSE IF v.kind = "iso" THEN Some(Timestamp(v.hi, v.lo, 0))
    ELSE None

\* lines 164-170: the epoch seconds of a field value, None when the parse raises
ParseTimestamp(v) ==
    IF v.kind = "digits"
    THEN IF ExceedsMsThreshold(v.hi, v.lo)
         THEN LET secs == v.hi * MS_FACTOR + (v.lo \div MS_FACTOR)
              IN Some(Timestamp(secs \div Million, secs % Million, v.lo % MS_FACTOR))
         ELSE Some(Timestamp(v.hi, v.lo, 0))
    ELSE IF v.kind = "iso" THEN Some(Timestamp(v.hi, v.lo, 0))
    ELSE None

\* timestamp > latest_timestamp (line 172)
Later(a, b) ==
    \/ a.hi > b.hi
    \/ a.hi = b.hi /\ a.lo > b.lo
    \/ a.hi = b.hi /\ a.lo = b.lo /\ a.ms > b.ms

\* lines 160-177 for one object: the fields are tried in order from position
\* k; a field that is present with a truthy value is parsed, a parse that
\* succeeds ends the scan of the item (break), one that raises moves on to the
\* next field (continue).
RECURSIVE ScanFields(_, _)
ScanFields(f, k) ==
    IF k > Len(TIMESTAMP_FIELDS) THEN None
    ELSE LET field == TIMESTAMP_FIELDS[k]
         IN IF field \in DOMAIN f /\ f[field].kind # "empty"
            THEN LET ts == ParseTimestamp(f[field])
                 IN IF ts # None THEN ts ELSE ScanFields(f, k + 1)
            ELSE ScanFields(f, k + 1)

\* `field in tx` and `tx[field]` (line 161) are outside the inner try: a number
\* or null raises TypeError at `in`, a string that contains a field name
\* raises it at the subscript.
TxRaises(tx) ==
    \/ tx.type \in {"number", "null"}
    \/ tx.type = "string" /\ tx.mentions # {}

TxTimestamp(tx) == IF tx.type = "object" THEN ScanFields(tx.fields, 1) ELSE None

\* lines 156-177: latest_timestamp after the first n transactions
RECURSIVE LatestTimestamp(_, _)
LatestTimestamp(transactions, n) ==
    IF n = 0 THEN None
    ELSE LET latest == LatestTimestamp(transactions, n - 1)
             ts == TxTimestamp(transactions[n])
         IN IF ts # None /\ (latest = None \/ Later(TheValue(ts), TheValue(latest)))
            THEN ts
            ELSE latest

\* lines 145-153: the first known key that holds a list wins
RECURSIVE FirstListKey(_, _)
FirstListKey(f, k) ==
    IF k > Len(POSSIBLE_KEYS) THEN <<>>
    ELSE IF POSSIBLE_KEYS[k] \in DOMAIN f /\ f[POSSIBLE_KEYS[k]].type = "list"
    THEN f[POSSIBLE_KEYS[k]].items
    ELSE FirstListKey(f, k + 1)

ExtractTransactions(data) ==
    IF data.type = "list" THEN data.items
    ELSE IF data.type = "dict" THEN FirstListKey(data.fields, 1)
    ELSE <<>>

\* Whether a transaction list is extractable from the body at all
HasTransactionList(data) ==
    \/ data.type = "list"
    \/ data.type = "dict"
       /\ \E k \in DOMAIN POSSIBLE_KEYS :
            POSSIBLE_KEYS[k] \in DOMAIN data.fields /\ data.fields[POSSIBLE_KEYS[k]].type = "list"

\* `if latest_timestamp:` (line 179): None and 0 are falsy
Truthy(latest) ==
    latest # None /\ (TheValue(latest).hi # 0 \/ TheValue(latest).lo # 0 \/ TheValue(latest).ms # 0)

\* int(x / d) for d > 0: Python's int() truncates toward zero
TruncDiv(x, d) == IF x >= 0 THEN x \div d ELSE -((-x) \div d)

\* lines 180-181: int((current_time - latest_timestamp) / 60), with
\* current_time a whole number of seconds.  With s the whole seconds of the
\* difference and a fraction ms > 0 taken off it, the quotient lies strictly
\* between (s - 1) / 60 and s / 60.
MinutesAgo(current_time, latest) ==
    LET s == ((current_time \div Million) - latest.hi) * Million
             + ((current_time % Million) - latest.lo)
    IN IF latest.ms = 0 THEN TruncDiv(s, SECONDS_PER_MINUTE)
       ELSE IF s >= 1 THEN (s - 1) \div SECONDS_PER_MINUTE
       ELSE -((-s) \div SECONDS_PER_MINUTE)

\* line 117: the probe returns None at once for a falsy or all-zero address
ProbeRefuses(address) == address = None \/ TheValue(address) = ZERO_ADDRESS

\* The answer of one activity endpoint
ActivityResponse(k, c, p, d) == [kind |-> k, code |-> c, parses |-> p, data |-> d]

\* ProbeEndpoint with a loop that ends at the first body holding a transaction
\* list, also when the list yields nothing
ProbeEndpoint_StopAtList(response) ==
    IF response.kind = "error" \/ response.code # HTTP_OK \/ ~response.parses
    THEN [kind |-> "next", latest |-> None]
    ELSE LET transactions == ExtractTransactions(response.data)
             latest == LatestTimestamp(transactions, Len(transactions))
         IN IF ~HasTransactionList(response.data) THEN [kind |-> "next", latest |-> None]
            ELSE IF \E k \in DOMAIN transactions : TxRaises(transactions[k])
            THEN [kind |-> "abort", latest |-> None]
            ELSE IF Truthy(latest) THEN [kind |-> "return", latest |-> latest]
            ELSE [kind |-> "abort", latest |-> None]

\* lines 138-188 for one endpoint: "next" (the loop moves on to the next
\* endpoint), "return" (line 182 returns minutes_ago) or "abort" (an exception
\* no inner handler catches reaches line 192, which returns None).
ProbeEndpoint(response) ==
    IF response.kind = "error" \/ response.code # HTTP_OK \/ ~response.parses
    THEN [kind |-> "next", latest |-> None]
    ELSE LET transactions == ExtractTransactions(response.data)
             latest == LatestTimestamp(transactions, Len(transactions))
         IN IF transactions = <<>> THEN [kind |-> "next", latest |-> None]
            ELSE IF \E k \in DOMAIN transactions : TxRaises(transactions[k])
            THEN [kind |-> "abort", latest |-> None]
            ELSE IF Truthy(latest) THEN [kind |-> "return", latest |-> latest]
            ELSE [kind |-> "next", latest |-> None]

\* ------------------------------------------ the explorer's possible answers
TxItems ==
    { TxObject([k \in {"timestamp"} |-> Digits(1700, 0)]),
      TxObject([k \in {"timestamp"} |-> Digits(1700001, 20000)]),
      TxObject([k \in {"timestamp"} |-> Digits(1700001, 20500)]),
      TxObject([k \in {"block_timestamp"} |-> Iso(1700, 1920)]),
      TxObject([k \in {"created_at"} |-> Digits(1700, 2820)]),
      TxObject([k \in {"block_time"} |-> Iso(1700, 6030)]),
      TxObject([k \in {"timestamp", "time"} |-> IF k = "timestamp" THEN Junk ELSE Digits(1700, 0)]),
      TxObject([k \in {"timestamp"} |-> Junk]),
      TxObject([k \in {"timestamp"} |-> Digits(0, 0)]),
      TxObject([k \in {"hash"} |-> Junk]),
      TxOther("number", {}) }

TxListsUpTo(max) == UNION {[1..n -> TxItems] : n \in 0..max}

\* Bodies: a bare list; an object that holds a list under its first known key,
\* or under a later known key behind one that holds no list; bodies from which
\* no list can be extracted
ActivityBodies ==
    {JList(l) : l \in TxListsUpTo(MaxTx)}
    \cup {JDict([k \in {"items"} |-> JList(l)]) : l \in TxListsUpTo(1)}
    \cup {JDict([k \in {"items", "result"} |-> IF k = "items" THEN JScalar("string") ELSE JList(l)]) :
            l \in TxListsUpTo(1)}
    \cup {JDict([k \in {"message"} |-> JScalar("string")]), JDict(EmptyDict), JScalar("string"),
          JScalar("null")}

ActivityResponses ==
    {ActivityResponse("error", 0, FALSE, JScalar("null"))}
    \cup {ActivityResponse("http", c, FALSE, JScalar("null")) : c \in {200, 404, 500}}
    \cup {ActivityResponse("http", 200, TRUE, d) : d \in ActivityBodies}
    \cup {ActivityResponse("http", 404, TRUE, JList(<<>>))}

\* An explorer that is out of reach
FewActivityResponses == { ActivityResponse("error", 0, FALSE, JScalar("null")) }

\* ------------------------------------------ collect_node_data (196-254)
\* lines 241-247, the icon of the log line: "black" is the black circle,
\* "red" the red one, "yellow" the yellow one, "green" the green one
\* Classify with >= for > at line 244
Classify_Inclusive(last_tx_minutes) ==
    IF last_tx_minutes = None THEN "black"
    ELSE IF TheValue(last_tx_minutes) >= STALE_MINUTES THEN "red"
    ELSE IF TheValue(last_tx_minutes) > WARNING_MINUTES THEN "yellow"
    ELSE "green"

Classify(last_tx_minutes) ==
    IF last_tx_minutes = None THEN "black"
    ELSE IF TheValue(last_tx_minutes) > STALE_MINUTES THEN "red"
    ELSE IF TheValue(last_tx_minutes) > WARNING_MINUTES THEN "yellow"
    ELSE "green"

Record(id, name, address, reward, score, online, minutes, timestamp) ==
    [id |-> id, name |-> name, address |-> address, reward |-> reward, score |-> score,
     online |-> online, last_tx_minutes_ago |-> minutes, timestamp |-> timestamp]

\* DefaultRecord with the marker of line 230 for the one of line 210
DefaultRecord_OtherMarker(node_id, address, now) ==
    Record(node_id, "Unknown", address, 0, 0, FALSE, None, now)

\* DefaultRecord with the address reset like the other fields
DefaultRecord_NullAddress(node_id, address, now) ==
    Record(node_id, "UNKNOWN", None, 0, 0, FALSE, None, now)

\* lines 208-217
DefaultRecord(node_id, address, now) ==
    Record(node_id, "UNKNOWN", address, 0, 0, FALSE, None, now)

\* lines 228-237
MergedRecord(node_id, peer, address, minutes, now) ==
    Record(node_id, Get(peer, "peerName", "Unknown"), address, Get(peer, "score", 0),
           Get(peer, "reward", 0), Get(peer, "online", FALSE), minutes, now)

\* ------------------------------------------------------------------ state
VARIABLES
    contract,         \* self.contract: None when the constructor could not build it (39-47)
    node_ids,         \* the roster collect_node_data was called with
    pc,               \* "start", "loop", "probe", "record", "done" or "raised"
    chain,            \* what the getEoa call did: "uncalled", "raise" or "return" with the array
    eoa_addresses,    \* the dict get_eoa_addresses_batch returned (line 200)
    i,                \* position of the roster entry in hand, from 1
    peer_info,        \* outcome of get_peer_info for that entry (line 205)
    eoa_address,      \* line 221
    endpoint,         \* position in api_endpoints of the next endpoint to request (line 137)
    last_tx_minutes,  \* per run, line 222 / 225
    results,          \* per run, the list collect_node_data builds
    clock,            \* per run, the wall clock in whole seconds
    log,              \* per run, the icon and the minutes of every log line of line 249
    eoa_calls,        \* the argument of every getEoa call made
    status_calls,     \* every status GET issued: the position and the sleeps done before it
    fetched,          \* what get_peer_info returned for each entry processed
    probe_calls,      \* every call of get_last_internal_tx_time: the position and address
    probe,            \* notes on the probe call of the entry in hand, see NoProbe
    sleeps            \* number of time.sleep(1) calls done

vars == <<contract, node_ids, pc, chain, eoa_addresses, i, peer_info, eoa_address, endpoint,
          last_tx_minutes, results, clock, log, eoa_calls, status_calls, fetched,
          probe_calls, probe, sleeps>>

NoPeer == [kind |-> "none", data |-> EmptyDict]

\* Notes on one call of get_last_internal_tx_time:
\*   calls       the endpoints requested, in the order of the requests
\*   last        the class of the latest answer (see AnswerClass), "" before it
\*   first_list  the first endpoint that answered 200 with a body holding a
\*               transaction list (0: none yet), the class of that answer and
\*               the class of the answer before it
\*   exit        how the call ended: "return", "abort", "exhausted"; "" before
\*   answer      the latest answer itself, NoAnswer before the first one
NoAnswer == [kind |-> "error", code |-> 0, parses |-> FALSE, data |-> JScalar("null")]
NoProbe ==
    [calls |-> <<>>, last |-> "", first_list |-> [at |-> 0, class |-> "", prev |-> ""], exit |-> "",
     answer |-> NoAnswer]

\* The class of an endpoint's answer:
\*   "fail"    no answer, a status other than 200, or a body that is no JSON
\*   "nolist"  no transaction list can be extracted from the body
\*   "empty"   the transaction list is empty
\*   "raises"  the list holds an item that makes the scan raise
\*   "time"    the list yields a latest timestamp other than 0
\*   "notime"  the list yields no timestamp, or the timestamp 0
AnswerClass(response) ==
    LET transactions == ExtractTransactions(response.data)
    IN IF response.kind = "error" \/ response.code # HTTP_OK \/ ~response.parses THEN "fail"
       ELSE IF ~HasTransactionList(response.data) THEN "nolist"
       ELSE IF transactions = <<>> THEN "empty"
       ELSE IF \E k \in DOMAIN transactions : TxRaises(transactions[k]) THEN "raises"
       ELSE IF Truthy(LatestTimestamp(transactions, Len(transactions))) THEN "time"
       ELSE "notime"

\* The state when collect_node_data is entered, the wall clocks of the two
\* runs drawn from `clocks` and the roster from `rosters`
Start(rosters, clocks) ==
    /\ contract \in {None, Some("getEoa")}
    /\ node_ids \in rosters
    /\ clock \in {[r \in Runs |-> p[r]] : p \in clocks}
    /\ pc = "start"
    /\ chain = [kind |-> "uncalled", addresses |-> <<>>]
    /\ eoa_addresses = EmptyDict
    /\ i = 1
    /\ peer_info = NoPeer
    /\ eoa_address = None
    /\ endpoint = 1
    /\ last_tx_minutes = [r \in Runs |-> None]
    /\ results = [r \in Runs |-> <<>>]
    /\ log = [r \in Runs |-> <<>>]
    /\ eoa_calls = <<>>
    /\ status_calls = <<>>
    /\ fetched = <<>>
    /\ probe_calls = <<>>
    /\ probe = NoProbe
    /\ sleeps = 0

\* ResolveAddresses with a getEoa call that is made once more after it raised
ResolveAddresses_Retry(outcomes) ==
    /\ pc = "start"
    /\ \E outcome \in outcomes :
         /\ contract = None => outcome = ChainRaise
         /\ chain' = IF contract = None THEN chain ELSE outcome
         /\ eoa_addresses' = get_eoa_addresses_batch(node_ids, contract, outcome)
         /\ eoa_calls' = IF contract = None THEN eoa_calls
                         ELSE IF outcome.kind = "raise"
                         THEN Append(Append(eoa_calls, node_ids), node_ids)
                         ELSE Append(eoa_calls, node_ids)
    /\ pc' = "loop"
    /\ UNCHANGED <<contract, node_ids, i, peer_info, eoa_address, endpoint, last_tx_minutes,
                   results, clock, log, status_calls, fetched, probe_calls, probe, sleeps>>

\* line 200.  getEoa is called only when the contract object exists (86-92).
ResolveAddresses(outcomes) ==
    /\ pc = "start"
    /\ \E outcome \in outcomes :
         /\ contract = None => outcome = ChainRaise
         /\ chain' = IF contract = None THEN chain ELSE outcome
         /\ eoa_addresses' = get_eoa_addresses_batch(node_ids, contract, outcome)
    /\ eoa_calls' = IF contract = None THEN eoa_calls ELSE Append(eoa_calls, node_ids)
    /\ pc' = "loop"
    /\ UNCHANGED <<contract, node_ids, i, peer_info, eoa_address, endpoint, last_tx_minutes,
                   results, clock, log, status_calls, fetched, probe_calls, probe, sleeps>>

StatusGet == Append(status_calls, [pos |-> i, sleeps |-> sleeps])

\* line 205 raises: the exception leaves get_peer_info and collect_node_data
StatusRaises(responses) ==
    /\ pc = "loop" /\ i <= Len(node_ids)
    /\ \E response \in responses : get_peer_info(response).kind = "raise"
    /\ status_calls' = StatusGet
    /\ pc' = "raised"
    /\ UNCHANGED <<contract, node_ids, chain, eoa_addresses, i, peer_info, eoa_address, endpoint,
                   last_tx_minutes, results, clock, log, eoa_calls, fetched, probe_calls,
                   probe, sleeps>>

\* StatusUnavailable with a `continue` that comes before results.append
StatusUnavailable_NoAppend(responses) ==
    /\ pc = "loop" /\ i <= Len(node_ids)
    /\ \E response \in responses :
         LET peer == get_peer_info(response)
         IN /\ peer.kind # "raise" /\ Falsy(peer)
            /\ peer_info' = peer
            /\ fetched' = Append(fetched, peer)
    /\ status_calls' = StatusGet
    /\ i' = i + 1
    /\ UNCHANGED <<contract, node_ids, pc, chain, eoa_addresses, eoa_address, endpoint,
                   last_tx_minutes, results, clock, log, eoa_calls, probe_calls, probe, sleeps>>

\* lines 205-219: peer_info is falsy, the default record is appended and the
\* loop continues with the next entry
StatusUnavailable(responses) ==
    /\ pc = "loop" /\ i <= Len(node_ids)
    /\ \E response \in responses :
         LET peer == get_peer_info(response)
         IN /\ peer.kind # "raise" /\ Falsy(peer)
            /\ peer_info' = peer
            /\ fetched' = Append(fetched, peer)
    /\ status_calls' = StatusGet
    /\ results' = [r \in Runs |->
                     Append(results[r],
                            DefaultRecord(node_ids[i], Lookup(eoa_addresses, node_ids[i]), clock[r]))]
    /\ i' = i + 1
    /\ UNCHANGED <<contract, node_ids, pc, chain, eoa_addresses, eoa_address, endpoint,
                   last_tx_minutes, clock, log, eoa_calls, probe_calls, probe, sleeps>>

\* StatusAvailable without the test `if eoa_address:` of line 224
StatusAvailable_AlwaysProbe(responses) ==
    /\ pc = "loop" /\ i <= Len(node_ids)
    /\ \E response \in responses :
         LET peer == get_peer_info(response)
         IN /\ peer.kind # "raise" /\ ~Falsy(peer)
            /\ peer_info' = peer
            /\ fetched' = Append(fetched, peer)
    /\ status_calls' = StatusGet
    /\ eoa_address' = Lookup(eoa_addresses, node_ids[i])
    /\ last_tx_minutes' = [r \in Runs |-> None]
    /\ probe_calls' = Append(probe_calls, [pos |-> i, address |-> eoa_address'])
    /\ endpoint' = 1
    /\ pc' = IF ProbeRefuses(eoa_address') THEN "record" ELSE "probe"
    /\ UNCHANGED <<contract, node_ids, chain, eoa_addresses, i, results, clock, log,
                   eoa_calls, probe, sleeps>>

\* lines 205-225 up to the call of get_last_internal_tx_time
StatusAvailable(responses) ==
    /\ pc = "loop" /\ i <= Len(node_ids)
    /\ \E response \in responses :
         LET peer == get_peer_info(response)
         IN /\ peer.kind # "raise" /\ ~Falsy(peer)
            /\ peer_info' = peer
            /\ fetched' = Append(fetched, peer)
    /\ status_calls' = StatusGet
    /\ eoa_address' = Lookup(eoa_addresses, node_ids[i])
    /\ last_tx_minutes' = [r \in Runs |-> None]
    /\ IF eoa_address' # None
       THEN /\ probe_calls' = Append(probe_calls, [pos |-> i, address |-> eoa_address'])
            /\ endpoint' = 1
            /\ pc' = IF ProbeRefuses(eoa_address') THEN "record" ELSE "probe"
       ELSE /\ pc' = "record"
            /\ UNCHANGED <<endpoint, probe_calls>>
    /\ UNCHANGED <<contract, node_ids, chain, eoa_addresses, i, results, clock, log,
                   eoa_calls, probe, sleeps>>

\* The notes after the request of the endpoint in hand was answered
Noted(response, exit) ==
    LET class == AnswerClass(response)
    IN [calls |-> Append(probe.calls, endpoint),
        last |-> class,
        first_list |->
            IF probe.first_list.at = 0 /\ class \notin {"fail", "nolist"}
            THEN [at |-> endpoint, class |-> class, prev |-> probe.last]
            ELSE probe.first_list,
        exit |-> exit,
        answer |-> response]

\* ProbeRequest with `if minutes_ago:` guarding the return of line 182
ProbeRequest_FalsyMinutes(responses) ==
    /\ pc = "probe" /\ endpoint <= NumEndpoints
    /\ \E response \in responses :
         LET out == ProbeEndpoint(response)
         IN IF out.kind = "next"
            THEN /\ endpoint' = endpoint + 1
                 /\ probe' = Noted(response, "")
                 /\ UNCHANGED <<pc, last_tx_minutes>>
            ELSE /\ pc' = "record"
                 /\ probe' = Noted(response, out.kind)
                 /\ last_tx_minutes' =
                      [r \in Runs |->
                         IF out.kind = "return" /\ MinutesAgo(clock[r], TheValue(out.latest)) # 0
                         THEN Some(MinutesAgo(clock[r], TheValue(out.latest)))
                         ELSE None]
                 /\ UNCHANGED endpoint
    /\ UNCHANGED <<contract, node_ids, chain, eoa_addresses, i, peer_info, eoa_address,
                   results, clock, log, eoa_calls, status_calls, fetched, probe_calls, sleeps>>

\* ProbeRequest with a loop that requests an endpoint again after it failed
ProbeRequest_Retry(responses) ==
    /\ pc = "probe" /\ endpoint <= NumEndpoints
    /\ \E response \in responses :
         LET out == ProbeEndpoint(response)
         IN IF out.kind = "next"
            THEN /\ endpoint' = IF AnswerClass(response) = "fail" THEN endpoint ELSE endpoint + 1
                 /\ probe' = Noted(response, "")
                 /\ UNCHANGED <<pc, last_tx_minutes>>
            ELSE /\ pc' = "record"
                 /\ probe' = Noted(response, out.kind)
                 /\ last_tx_minutes' =
                      [r \in Runs |->
                         IF out.kind = "return"
                         THEN Some(MinutesAgo(clock[r], TheValue(out.latest)))
                         ELSE None]
                 /\ UNCHANGED endpoint
    /\ UNCHANGED <<contract, node_ids, chain, eoa_addresses, i, peer_info, eoa_address,
                   results, clock, log, eoa_calls, status_calls, fetched, probe_calls, sleeps>>

\* One pass of the probe's loop (lines 137-188): the GET of the endpoint in
\* hand, and what the loop body makes of the answer
ProbeRequest(responses) ==
    /\ pc = "probe" /\ endpoint <= NumEndpoints
    /\ \E response \in responses :
         LET out == ProbeEndpoint(response)
         IN IF out.kind = "next"
            THEN /\ endpoint' = endpoint + 1
                 /\ probe' = Noted(response, "")
                 /\ UNCHANGED <<pc, last_tx_minutes>>
            ELSE /\ pc' = "record"
                 /\ probe' = Noted(response, out.kind)
                 /\ last_tx_minutes' =
                      [r \in Runs |->
                         IF out.kind = "return"
                         THEN Some(MinutesAgo(clock[r], TheValue(out.latest)))
                         ELSE None]
                 /\ UNCHANGED endpoint
    /\ UNCHANGED <<contract, node_ids, chain, eoa_addresses, i, peer_info, eoa_address,
                   results, clock, log, eoa_calls, status_calls, fetched, probe_calls, sleeps>>

\* line 190: every endpoint was tried
ProbeExhausted ==
    /\ pc = "probe" /\ endpoint > NumEndpoints
    /\ last_tx_minutes' = [r \in Runs |-> None]
    /\ probe' = [probe EXCEPT !.exit = "exhausted"]
    /\ pc' = "record"
    /\ UNCHANGED <<contract, node_ids, chain, eoa_addresses, i, peer_info, eoa_address, endpoint,
                   results, clock, log, eoa_calls, status_calls, fetched, probe_calls, sleeps>>

\* lines 228-251: the record is appended, the icon chosen and logged, the
\* pacing sleep done.  The notes on the probe call of this entry end with it.
AppendRecord ==
    /\ pc = "record"
    /\ results' = [r \in Runs |->
                     Append(results[r],
                            MergedRecord(node_ids[i], peer_info.data, eoa_address,
                                         last_tx_minutes[r], clock[r]))]
    /\ log' = [r \in Runs |->
                 Append(log[r], [pos |-> i, icon |-> Classify(last_tx_minutes[r]),
                                 minutes |-> last_tx_minutes[r]])]
    /\ clock' = [r \in Runs |-> clock[r] + PACING_DELAY]
    /\ sleeps' = sleeps + 1
    /\ i' = i + 1
    /\ pc' = "loop"
    /\ probe' = NoProbe
    /\ UNCHANGED <<contract, node_ids, chain, eoa_addresses, peer_info, eoa_address, endpoint,
                   last_tx_minutes, eoa_calls, status_calls, fetched, probe_calls>>

\* lines 253-254
Return ==
    /\ pc = "loop" /\ i > Len(node_ids)
    /\ pc' = "done"
    /\ UNCHANGED <<contract, node_ids, chain, eoa_addresses, i, peer_info, eoa_address, endpoint,
                   last_tx_minutes, results, clock, log, eoa_calls, status_calls, fetched,
                   probe_calls, probe, sleeps>>

\* The pipeline against a status API that may give any answer of
\* StatusResponses and an explorer that is out of reach
Init == Start(RostersUpTo(MaxRoster), ClockPairs)

Next ==
    \/ ResolveAddresses(ChainOutcomes)
    \/ StatusRaises(StatusResponses)
    \/ StatusUnavailable(StatusResponses)
    \/ StatusAvailable(StatusResponses)
    \/ ProbeRequest(FewActivityResponses)
    \/ ProbeExhausted
    \/ AppendRecord
    \/ Return

Spec == Init /\ [][Next]_vars

\* The pipeline against an explorer that may give any answer of
\* ActivityResponses, a status API that gives one of three and a chain that
\* gives one of two
ProbeInit == Start(RostersUpTo(MaxProbeRoster), ClockPairs)

ProbeNext ==
    \/ ResolveAddresses(FewChainOutcomes)
    \/ StatusRaises(FewStatusResponses)
    \/ StatusUnavailable(FewStatusResponses)
    \/ StatusAvailable(FewStatusResponses)
    \/ ProbeRequest(ActivityResponses)
    \/ ProbeExhausted
    \/ AppendRecord
    \/ Return

ProbeSpec == ProbeInit /\ [][ProbeNext]_vars

\* ----------------------------------------------------------------- claims
Processed(r) == DOMAIN results[r]
Probed(j) == \E k \in DOMAIN probe_calls : probe_calls[k].pos = j
\* chain-call-failure: getEoa raised, or there was no contract object to call
ChainFailed == pc # "start" /\ (contract = None \/ chain.kind = "raise")

\* C1: in both runs the list holds one record per roster entry processed so
\* far, the j-th record carries the id roster[j], and once collect_node_data
\* has returned the list holds one record per roster entry.
C1_OneRecordPerEntryInOrder ==
    \A r \in Runs :
        /\ Len(results[r]) = i - 1
        /\ \A j \in Processed(r) : results[r][j].id = node_ids[j]
        /\ pc = "done" => Len(results[r]) = Len(node_ids)

\* a returned run over a roster that names the same node twice
C1_Witness ==
    /\ pc = "done" /\ Len(node_ids) = 2 /\ node_ids[1] = node_ids[2]
    /\ Len(results[1]) = 2 /\ results[1][2].id = node_ids[2]

\* C2: no upstream outcome makes an exception leave get_peer_info,
\* get_eoa_addresses_batch, get_last_internal_tx_time or collect_node_data.
C2_NoExceptionPropagates == pc # "raised"

C4_UnavailableGivesDefaults ==
    \A r \in Runs : \A j \in Processed(r) :
        fetched[j].kind = "none" =>
            /\ results[r][j].name = "UNKNOWN"
            /\ results[r][j].reward = 0 /\ results[r][j].score = 0
            /\ results[r][j].online = FALSE
            /\ results[r][j].last_tx_minutes_ago = None
            /\ ~Probed(j)

\* an unavailable entry for which an address was resolved
C4_Witness ==
    \E j \in Processed(1) :
        /\ fetched[j].kind = "none"
        /\ results[1][j].address # None
        /\ results[1][j].name = "UNKNOWN"

\* C5: an entry whose status GET gave a JSON object is available: every field
\* of its record is the API value when the key is present and its own default
\* otherwise, and the probe is called when an address was resolved for it.
C5_ObjectIsAvailable ==
    \A r \in Runs : \A j \in Processed(r) :
        fetched[j].kind = "dict" =>
            /\ results[r][j].name = Get(fetched[j].data, "peerName", "Unknown")
            /\ results[r][j].reward = Get(fetched[j].data, "score", 0)
            /\ results[r][j].score = Get(fetched[j].data, "reward", 0)
            /\ results[r][j].online = Get(fetched[j].data, "online", FALSE)
            /\ Lookup(eoa_addresses, node_ids[j]) # None => Probed(j)

\* C6: when the chain call failed, every record has the address None.
C6_ChainFailureNullsAddresses ==
    ChainFailed => \A r \in Runs : \A j \in Processed(r) : results[r][j].address = None

\* getEoa raised; one entry was unavailable, the next one available
C6_Witness ==
    /\ pc = "done" /\ chain.kind = "raise" /\ Len(results[1]) = 2
    /\ fetched[1].kind = "none" /\ ~Falsy(fetched[2])
    /\ results[1][1].address = None /\ results[1][2].address = None

\* The positions at which getEoa returned an address for the identity
ReturnedFor(id) == {p \in DOMAIN node_ids \cap DOMAIN chain.addresses : node_ids[p] = id}

\* C7: an identity whose address returned by getEoa is the all-zero sentinel
\* is mapped to None, its records have the address None, and the probe is
\* not called for it.
C7_SentinelIsNone ==
    (pc # "start" /\ chain.kind = "return") =>
        \A id \in NodeIds :
            (ReturnedFor(id) # {} /\ \A p \in ReturnedFor(id) : chain.addresses[p] = ZERO_ADDRESS) =>
                /\ id \in DOMAIN eoa_addresses /\ eoa_addresses[id] = None
                /\ \A r \in Runs : \A j \in Processed(r) :
                       node_ids[j] = id => results[r][j].address = None /\ ~Probed(j)

\* the sentinel came back for the first entry, whose status was available
C7_Witness ==
    /\ pc = "done" /\ chain.kind = "return" /\ Len(results[1]) >= 1
    /\ 1 \in ReturnedFor(node_ids[1]) /\ chain.addresses[1] = ZERO_ADDRESS
    /\ \A p \in ReturnedFor(node_ids[1]) : chain.addresses[p] = ZERO_ADDRESS
    /\ ~Falsy(fetched[1]) /\ results[1][1].address = None

SameButTimestamp(a, b) ==
    /\ a.id = b.id /\ a.name = b.name /\ a.address = b.address /\ a.reward = b.reward
    /\ a.score = b.score /\ a.online = b.online
    /\ a.last_tx_minutes_ago = b.last_tx_minutes_ago

\* C8, as claimed: the two runs produce lists that are equal in every field
\* but the timestamp.
C8_RunsAgreeButTimestamp ==
    /\ Len(results[1]) = Len(results[2])
    /\ \A j \in Processed(1) : SameButTimestamp(results[1][j], results[2][j])

\* C8, as amended: the two runs produce lists that are equal in every field
\* but the timestamp and last_tx_minutes_ago, and last_tx_minutes_ago is None
\* in one run exactly when it is None in the other.
C8_RunsAgreeButClockFields ==
    /\ Len(results[1]) = Len(results[2])
    /\ \A j \in Processed(1) :
         LET a == results[1][j]
             b == results[2][j]
         IN /\ a.id = b.id /\ a.name = b.name /\ a.address = b.address
            /\ a.reward = b.reward /\ a.score = b.score /\ a.online = b.online
            /\ (a.last_tx_minutes_ago = None) <=> (b.last_tx_minutes_ago = None)

\* both runs returned, at different times, with a record that has minutes
C8_Witness ==
    /\ pc = "done" /\ Len(results[1]) >= 1
    /\ results[1][1].timestamp # results[2][1].timestamp
    /\ results[1][1].last_tx_minutes_ago = Some(47)
    /\ results[2][1].last_tx_minutes_ago = Some(48)

\* C9: a status GET that is not the first one is issued only after a pacing
\* sleep made since the status GET before it.
C9_PacedBetweenEntries ==
    \A k \in DOMAIN status_calls :
        k > 1 => status_calls[k].sleeps > status_calls[k - 1].sleeps

\* The table of section 4.5 of the specification
HealthTable(minutes) ==
    IF minutes = None THEN "unknown"
    ELSE IF TheValue(minutes) > 30 THEN "stale"
    ELSE IF TheValue(minutes) >= 16 THEN "warning"
    ELSE "healthy"

IconLabel(icon) ==
    CASE icon = "black" -> "unknown"
      [] icon = "red" -> "stale"
      [] icon = "yellow" -> "warning"
      [] icon = "green" -> "healthy"

\* C10: the classification logged for a record is the one the table gives for
\* the record's last_tx_minutes_ago: None unknown, above 30 stale, 16 to 30
\* warning, 15 or less healthy.
C10_ClassificationIsTheTable ==
    \A r \in Runs : \A k \in DOMAIN log[r] :
        /\ IconLabel(log[r][k].icon) = HealthTable(log[r][k].minutes)
        /\ log[r][k].minutes = results[r][log[r][k].pos].last_tx_minutes_ago

\* a record of exactly 30 minutes in run 1, which is 31 minutes in run 2
C10_Witness ==
    \E k \in DOMAIN log[1] :
        /\ log[1][k].minutes = Some(30) /\ log[1][k].icon = "yellow"
        /\ log[2][k].minutes = Some(31) /\ log[2][k].icon = "red"

\* The transactions of the latest answer the probe in hand received
AnswerList == ExtractTransactions(probe.answer.data)
\* The probe in hand has returned minutes (line 182)
ProbeReturned == pc = "record" /\ probe.exit = "return"

\* The latest answer is a list of one transaction whose only field is a
\* timestamp field holding a purely numeric string
OneNumericField ==
    /\ Len(AnswerList) = 1 /\ AnswerList[1].type = "object"
    /\ \E f \in Range(TIMESTAMP_FIELDS) :
         DOMAIN AnswerList[1].fields = {f} /\ AnswerList[1].fields[f].kind = "digits"
NumericValue == LET f == CHOOSE f \in DOMAIN AnswerList[1].fields : TRUE IN AnswerList[1].fields[f]

\* The minutes between the numeric value v and now: v counts milliseconds
\* when it is above 10^12 and seconds otherwise
ExpectedMinutes(now, v) ==
    IF v.hi > Million \/ (v.hi = Million /\ v.lo > 0)
    THEN ((now - (v.hi * 1000 + v.lo \div 1000)) * 1000 - (v.lo % 1000)) \div 60000
    ELSE (now - (v.hi * Million + v.lo)) \div 60

\* C11: a purely numeric timestamp above 10^12 is divided by 1000 before the
\* minutes are computed, one of at most 10^12 is taken as epoch seconds as it
\* is; 10^12 itself is taken as seconds, 10^12 + 1 is divided.
C11_MillisecondsAreNormalized ==
    /\ (ProbeReturned /\ OneNumericField) =>
          \A r \in Runs : last_tx_minutes[r] = Some(ExpectedMinutes(clock[r], NumericValue))
    /\ ParseTimestamp(Digits(1700000, 0)) = Some(Timestamp(1700, 0, 0))
    /\ ParseTimestamp(Digits(Million, 1)) = Some(Timestamp(1000, 0, 1))
    /\ ParseTimestamp(Digits(Million, 0)) = Some(Timestamp(Million, 0, 0))

\* the probe returned for the 13-digit "1700001020500": 29 minutes in run 1
\* and 30 in run 2; read as seconds, or rounded to 1700001020, it would not
C11_Witness ==
    /\ ProbeReturned /\ OneNumericField
    /\ NumericValue = Digits(1700001, 20500)
    /\ last_tx_minutes[1] = Some(29) /\ last_tx_minutes[2] = Some(30)

\* The latest answer is a 200 whose body parsed
AnswerParsed == probe.answer.kind = "http" /\ probe.answer.code = HTTP_OK /\ probe.answer.parses
\* The timestamps of the latest answer's transactions, each parsed from the
\* transaction's first usable timestamp field
Stamps ==
    {TheValue(TxTimestamp(AnswerList[k])) :
        k \in {k \in DOMAIN AnswerList : TxTimestamp(AnswerList[k]) # None}}
MaxStamp == CHOOSE a \in Stamps : \A b \in Stamps : ~Later(b, a)
\* floor((now - L) / 60), now in whole seconds
FloorMinutes(now, L) ==
    LET s == ((now \div Million) - L.hi) * Million + ((now % Million) - L.lo)
    IN IF L.ms = 0 THEN s \div 60 ELSE (s * 1000 - L.ms) \div 60000
NotInFuture(now, L) == ~Later(L, Timestamp(now \div Million, now % Million, 0))

\* C12: when the list of an answer yields a parseable timestamp, the probe
\* returns floor((now - L) / 60) for L the maximum of the timestamps of the
\* list, whatever the order of the list and the value of L, and the result is
\* not negative when L is not later than now.
C12_ReturnsFloorOfMaximum ==
    (AnswerParsed /\ Stamps # {}) =>
        /\ ProbeReturned
        /\ \A r \in Runs :
              /\ last_tx_minutes[r] = Some(FloorMinutes(clock[r], MaxStamp))
              /\ NotInFuture(clock[r], MaxStamp) => TheValue(last_tx_minutes[r]) >= 0

\* The latest answer's list holds a well-formed transaction: an object with a
\* timestamp field that parses to an instant other than 0
HoldsWellFormed ==
    \E k \in DOMAIN AnswerList :
        AnswerList[k].type = "object" /\ Truthy(TxTimestamp(AnswerList[k]))

\* C13: a transaction from which no timestamp can be extracted (an
\* unparseable value, no known field, an item that is no object) never aborts
\* the scan: a list that holds a well-formed transaction beside it makes the
\* probe return minutes.
C13_MalformedItemNeverAborts ==
    (AnswerParsed /\ HoldsWellFormed) =>
        /\ ProbeReturned
        /\ \A r \in Runs : last_tx_minutes[r] # None

\* C14: one status GET per roster entry, in roster order and never repeated;
\* when the cycle has ended, whatever way, a status GET was issued for every
\* roster entry.
C14_OneStatusGetPerEntry ==
    /\ \A k \in DOMAIN status_calls : status_calls[k].pos = k
    /\ Len(status_calls) <= Len(node_ids)
    /\ pc \in {"done", "raised"} => Len(status_calls) = Len(node_ids)

\* C15, as claimed: in every cycle exactly one getEoa call is made, with the
\* full roster, before the first status GET.
C15_OneChainCallPerCycle ==
    /\ pc = "start" => eoa_calls = <<>> /\ status_calls = <<>>
    /\ pc # "start" => eoa_calls = <<node_ids>>

\* C15, as amended: when the constructor built the contract object, exactly
\* one getEoa call is made, with the full roster, before the first status
\* GET, and it is not repeated when it raises; when there is no contract
\* object, no getEoa call is made and no address is resolved.
C15_OneChainCallWhenContractExists ==
    /\ pc = "start" => eoa_calls = <<>> /\ status_calls = <<>>
    /\ (pc # "start" /\ contract # None) => eoa_calls = <<node_ids>>
    /\ (pc # "start" /\ contract = None) =>
          /\ eoa_calls = <<>>
          /\ \A id \in NodeIds : Lookup(eoa_addresses, id) = None

\* getEoa raised and both entries of the roster had their status GET
C15_Witness ==
    /\ pc = "done" /\ contract # None /\ chain.kind = "raise"
    /\ Len(node_ids) = 2 /\ eoa_calls = <<node_ids>> /\ Len(status_calls) = 2

\* The calls of get_last_internal_tx_time made for the entry at position j
ProbeCallsFor(j) == {k \in DOMAIN probe_calls : probe_calls[k].pos = j}

C17_BoundByPosition ==
    (pc # "start" /\ chain.kind = "return") =>
        \A r \in Runs : \A j \in Processed(r) \cap DOMAIN chain.addresses :
            results[r][j].address =
                IF chain.addresses[j] = ZERO_ADDRESS THEN None ELSE Some(chain.addresses[j])

\* C18: within one call of the probe the endpoints are requested in list
\* order, each at most once, at most six in all, and none after the probe
\* has produced its result.
C18_EndpointsInOrderAtMostOnce ==
    [][ \/ probe'.calls = probe.calls
        \/ probe' = NoProbe
        \/ /\ pc = "probe" /\ probe.exit = ""
           /\ Len(probe.calls) < NumEndpoints
           /\ probe'.calls = Append(probe.calls, Len(probe.calls) + 1) ]_vars

\* a call of the probe that ended after six requests, every one passed over
C18_Witness ==
    /\ pc = "record" /\ probe.exit = "exhausted"
    /\ probe.calls = <<1, 2, 3, 4, 5, 6>>
    /\ probe.first_list.at = 0

\* C19: the address of every record is the value the resolver's mapping holds
\* for the record's id; the record of an entry whose status was unavailable
\* has the defaults in its other fields.
C19_AddressIsTheResolversValue ==
    \A r \in Runs : \A j \in Processed(r) :
        /\ results[r][j].address = Lookup(eoa_addresses, results[r][j].id)
        /\ fetched[j].kind = "none" =>
              /\ results[r][j].name = "UNKNOWN"
              /\ results[r][j].reward = 0 /\ results[r][j].score = 0
              /\ results[r][j].online = FALSE
              /\ results[r][j].last_tx_minutes_ago = None

\* two different nodes with a resolved address each, the status of the first
\* one unavailable, that of the second one available
C19_Witness ==
    /\ pc = "done" /\ Len(results[1]) = 2 /\ node_ids[1] # node_ids[2]
    /\ fetched[1].kind = "none" /\ ~Falsy(fetched[2])
    /\ results[1][1].address = Some("0xA1") /\ results[1][2].address = Some("0xA1")

====
